---- MODULE Spec2Model ----
(***************************************************************************)
(* State-machine model of hexapod/linkage.py: the Linkage class (one leg   *)
(* of the hexapod), its forward kinematics (change_pose), its in-place     *)
(* re-framing (update_leg_wrt), its ground-contact heuristic and the       *)
(* p0..p3 attribute interception (__getattr__ / __setattr__).              *)
(*                                                                         *)
(* Python objects are modelled by reference: `heap` maps object ids to     *)
(* Point values, and a Linkage's all_points, ground_contact_point and      *)
(* new_origin hold ids.  Angles are in degrees and range over multiples    *)
(* of 90, for which sine and cosine are exact integers, so every           *)
(* coordinate is an integer and equality is exact.                         *)
(*                                                                         *)
(* hexapod/points.py (Point, the two frame builders) and the inverse       *)
(* kinematics solver are not part of the sources at hand; the definitions  *)
(* standing for them are marked where they appear.                         *)
(***************************************************************************)
EXTENDS Integers, Sequences, FiniteSets, TLC

VARIABLES
    a, b, c,                 \* Linkage.a/b/c              (sequence indexed by leg)
    alpha, beta, gamma,      \* Linkage.alpha/beta/gamma
    coxia_axis,              \* Linkage.coxia_axis
    new_origin,              \* Linkage.new_origin         (object id)
    name,                    \* Linkage.name
    id,                      \* Linkage.id
    all_points,              \* Linkage.all_points         (4 object ids)
    ground_contact_point,    \* Linkage.ground_contact_point (object id)
    heap,                    \* object id -> Point value, Null when unallocated
    lastOp,                  \* the call that returned last: [op, leg]
    ikResult,                \* what the last solver call returned to its caller
    calls                    \* number of calls made on constructed objects

vars == <<a, b, c, alpha, beta, gamma, coxia_axis, new_origin, name, id,
          all_points, ground_contact_point, heap, lastOp, ikResult, calls>>

linkageFields == <<a, b, c, alpha, beta, gamma, coxia_axis, new_origin, name, id>>

(***************************************************************************)
(* Bounds of the model.                                                    *)
(***************************************************************************)
MaxLen == 2
MaxQuarter == 1
MaxCalls == 2

Null == [null |-> TRUE]

\* ------------------------------------------------------------------------
\* hexapod/points.py: Point and the homogeneous frames.
\* ------------------------------------------------------------------------

\* cosine and sine of an angle in degrees that is a multiple of 90
CosD(t) == CASE t % 360 = 0 -> 1 [] t % 360 = 90 -> 0 [] t % 360 = 180 -> -1 [] OTHER -> 0

SinD(t) == CASE t % 360 = 0 -> 0 [] t % 360 = 90 -> 1 [] t % 360 = 180 -> 0 [] OTHER -> -1

\* Point(x, y, z, name)
Point(x, y, z, nm) == [x |-> x, y |-> y, z |-> z, name |-> nm]

\* link transform: rotation about Y by theta, origin at (x, 0, 0) of the parent
frame_yrotate_xtranslate(theta, x) ==
    << << CosD(theta),  0, SinD(theta), x >>,
       << 0,            1, 0,           0 >>,
       << -SinD(theta), 0, CosD(theta), 0 >>,
       << 0,            0, 0,           1 >> >>

\* mount transform: rotation about Z by theta, origin at (x, y, 0) of the parent
frame_zrotate_xytranslate(theta, x, y) ==
    << << CosD(theta), -SinD(theta), 0, x >>,
       << SinD(theta),  CosD(theta), 0, y >>,
       << 0,            0,           1, 0 >>,
       << 0,            0,           0, 1 >> >>

\* np.matmul of two 4x4 frames
Dot(A, B, i, j) ==
    A[i][1] * B[1][j] + A[i][2] * B[2][j] + A[i][3] * B[3][j] + A[i][4] * B[4][j]

MatRow(A, B, i) == << Dot(A, B, i, 1), Dot(A, B, i, 2), Dot(A, B, i, 3), Dot(A, B, i, 4) >>

matmul(A, B) == << MatRow(A, B, 1), MatRow(A, B, 2), MatRow(A, B, 3), MatRow(A, B, 4) >>

\* np.matmul(frame, [x, y, z, 1]), first three components
Coord(frame, p, i) ==
    frame[i][1] * p.x + frame[i][2] * p.y + frame[i][3] * p.z + frame[i][4]

Apply(frame, p) == << Coord(frame, p, 1), Coord(frame, p, 2), Coord(frame, p, 3) >>

\* Point.get_point_wrt(reference_frame, name): a NEW Point
get_point_wrt(p, frame, nm) ==
    Point(Coord(frame, p, 1), Coord(frame, p, 2), Coord(frame, p, 3), nm)

\* Point.update_point_wrt(reference_frame, height): the SAME Point, re-expressed;
\* the name is kept
update_point_wrt(p, frame, height) ==
    Point(Coord(frame, p, 1), Coord(frame, p, 2), Coord(frame, p, 3) + height, p.name)

\* ------------------------------------------------------------------------
\* The objects the callers of Linkage hold.
\* ------------------------------------------------------------------------

\* Objects 1 and 2 are mount points a caller passes as new_origin.  Object 3 is
\* the Point(0, 0, 0) built once as the default of new_origin and shared by every
\* Linkage constructed without one; the label points.py gives a Point built
\* without a name is written as the empty label.  Object 4 is the
\* Point(1, 2, 3, "a") the tests inject.
DefaultOrigin == 3

CallerObjects == 1..4

Origins == 1..3

InitialHeapValue(o) ==
    CASE o = 1 -> Point(1, -1, 0, "mount")
      [] o = 2 -> Point(0, 1, 1, "raised")
      [] o = DefaultOrigin -> Point(0, 0, 0, "")
      [] o = 4 -> Point(1, 2, 3, "a")
      [] OTHER -> Null

\* the names the legs are constructed with, in order
LegNames == <<"front", "rear">>

\* ids enough for every leg's four points and a stale ground contact, plus the
\* four points a change_pose builds before it drops the old ones
Pool == 1..(Cardinality(CallerObjects) + 5 * Len(LegNames) + 4)

Legs == 1..Len(all_points)

RefsOf(ap, gcp, no) ==
    CallerObjects
    \cup UNION {{ap[l][i] : i \in 1..4} : l \in DOMAIN ap}
    \cup {gcp[l] : l \in DOMAIN gcp}
    \cup {no[l] : l \in DOMAIN no}

Live == RefsOf(all_points, ground_contact_point, new_origin)

MinOf(S) == CHOOSE m \in S : \A n \in S : m <= n

\* the ids of the next four allocations
FreshIds ==
    LET f1 == MinOf(Pool \ Live)
        f2 == MinOf(Pool \ (Live \cup {f1}))
        f3 == MinOf(Pool \ (Live \cup {f1, f2}))
        f4 == MinOf(Pool \ (Live \cup {f1, f2, f3}))
    IN  <<f1, f2, f3, f4>>

\* objects nothing refers to any more are freed
Collect(h, ap, gcp, no) ==
    LET refs == RefsOf(ap, gcp, no)
    IN  [o \in Pool |-> IF o \in refs THEN h[o] ELSE Null]

\* ------------------------------------------------------------------------
\* Linkage
\* ------------------------------------------------------------------------

\* __getattr__: p0..p3 read all_points[0..3]
attr_map(i) == i + 1

getattr_p(l, i) == all_points[l][attr_map(i)]

\* frame_ab is the pose of frame_b wrt frame_a
frame_01(be, la) == frame_yrotate_xtranslate(-be, la)

\* frame_12 without the quarter turn that sets the tibia square to the femur
frame_12_no_offset(ga, lb) == frame_yrotate_xtranslate(-ga, lb)

frame_12(ga, lb) == frame_yrotate_xtranslate(90 - ga, lb)

frame_23(lc) == frame_yrotate_xtranslate(0, lc)

frame_02(be, ga, la, lb) == matmul(frame_01(be, la), frame_12(ga, lb))

frame_03(be, ga, la, lb, lc) == matmul(frame_02(be, ga, la, lb), frame_23(lc))

new_frame(axis, al, origin) == frame_zrotate_xytranslate(axis + al, origin.x, origin.y)

\* the points wrt the body contact point (change_pose, first half)
LocalPoints(be, ga, la, lb, lc) ==
    LET p0 == Point(0, 0, 0, "")
    IN  << p0,
           get_point_wrt(p0, frame_01(be, la), ""),
           get_point_wrt(p0, frame_02(be, ga, la, lb), ""),
           get_point_wrt(p0, frame_03(be, ga, la, lb, lc), "") >>

\* the points wrt the center of gravity (change_pose, second half)
BodyPoints(nm, la, lb, lc, axis, origin, al, be, ga) ==
    LET loc == LocalPoints(be, ga, la, lb, lc)
        fr  == new_frame(axis, al, origin)
    IN  << Point(origin.x, origin.y, origin.z, origin.name \o "-body-contact"),
           get_point_wrt(loc[2], fr, nm \o "-coxia"),
           get_point_wrt(loc[3], fr, nm \o "-femur"),
           get_point_wrt(loc[4], fr, nm \o "-tibia") >>

\* the scan with <= for <: a later point of the scan wins a tie
RECURSIVE ScanGroundLe(_, _, _, _)
ScanGroundLe(h, pts, i, ground_contact) ==
    IF i = 0 THEN ground_contact
    ELSE ScanGroundLe(h, pts, i - 1,
                      IF h[pts[i]].z <= h[ground_contact].z THEN pts[i] ELSE ground_contact)

\* compute_ground_contact: the scan of reversed(all_points), starting from p3
RECURSIVE ScanGround(_, _, _, _)
ScanGround(h, pts, i, ground_contact) ==
    IF i = 0 THEN ground_contact
    ELSE ScanGround(h, pts, i - 1,
                    IF h[pts[i]].z < h[ground_contact].z THEN pts[i] ELSE ground_contact)

\* the ground contact taken to be the tip, without the scan
compute_ground_contact_tip(h, pts) == pts[4]

compute_ground_contact(h, pts) == ScanGround(h, pts, 4, pts[4])

Init ==
    /\ a = <<>> /\ b = <<>> /\ c = <<>>
    /\ alpha = <<>> /\ beta = <<>> /\ gamma = <<>>
    /\ coxia_axis = <<>> /\ new_origin = <<>>
    /\ name = <<>> /\ id = <<>>
    /\ all_points = <<>> /\ ground_contact_point = <<>>
    /\ heap = [o \in Pool |-> InitialHeapValue(o)]
    /\ lastOp = [op |-> "none", leg |-> 0]
    /\ ikResult = Null
    /\ calls = 0

\* self.all_points = [p0, p1, p2, p3] built on fresh objects
Install(h, ids, pts) ==
    [h EXCEPT ![ids[1]] = pts[1], ![ids[2]] = pts[2], ![ids[3]] = pts[3], ![ids[4]] = pts[4]]

\* Linkage(a, b, c, alpha, beta, gamma, coxia_axis, new_origin, name, id_number)
\* nm is always a string: with the default name=None the concatenation
\* self.name + "-coxia" in change_pose raises before any point is stored.
Construct(la, lb, lc, al, be, ga, axis, o, nm) ==
    /\ Len(all_points) < Len(LegNames)
    /\ \E ids \in {FreshIds} :
       \E pts \in {BodyPoints(nm, la, lb, lc, axis, heap[o], al, be, ga)} :
       \E h \in {Install(heap, ids, pts)} :
       \E gc \in {compute_ground_contact(h, ids)} :
        /\ a' = Append(a, la) /\ b' = Append(b, lb) /\ c' = Append(c, lc)
        /\ new_origin' = Append(new_origin, o)
        /\ coxia_axis' = Append(coxia_axis, axis)
        /\ id' = Append(id, Len(all_points) + 1)
        /\ name' = Append(name, nm)
        /\ alpha' = Append(alpha, al)
        /\ beta' = Append(beta, be)
        /\ gamma' = Append(gamma, ga)
        /\ all_points' = Append(all_points, ids)
        /\ ground_contact_point' = Append(ground_contact_point, gc)
        /\ heap' = Collect(h, all_points', ground_contact_point', new_origin')
        /\ lastOp' = [op |-> "construct", leg |-> Len(all_points) + 1]
        /\ UNCHANGED <<ikResult, calls>>

\* change_pose that patches p1..p3 and keeps the p0 object it had
change_pose_keep_p0(l, al, be, ga) ==
    /\ calls < MaxCalls
    /\ \E ids \in {<<all_points[l][1], FreshIds[1], FreshIds[2], FreshIds[3]>>} :
       \E pts \in {BodyPoints(name[l], a[l], b[l], c[l], coxia_axis[l],
                              heap[new_origin[l]], al, be, ga)} :
       \E h \in {[heap EXCEPT ![ids[2]] = pts[2], ![ids[3]] = pts[3], ![ids[4]] = pts[4]]} :
       \E gc \in {compute_ground_contact(h, ids)} :
        /\ alpha' = [alpha EXCEPT ![l] = al]
        /\ beta' = [beta EXCEPT ![l] = be]
        /\ gamma' = [gamma EXCEPT ![l] = ga]
        /\ all_points' = [all_points EXCEPT ![l] = ids]
        /\ ground_contact_point' = [ground_contact_point EXCEPT ![l] = gc]
        /\ heap' = Collect(h, all_points', ground_contact_point', new_origin)
        /\ lastOp' = [op |-> "change_pose", leg |-> l]
        /\ calls' = calls + 1
        /\ UNCHANGED <<a, b, c, coxia_axis, new_origin, name, id, ikResult>>

\* change_pose with p0 = self.new_origin, the deepcopy left out
change_pose_shared_origin(l, al, be, ga) ==
    /\ calls < MaxCalls
    /\ \E ids \in {<<new_origin[l], FreshIds[1], FreshIds[2], FreshIds[3]>>} :
       \E pts \in {BodyPoints(name[l], a[l], b[l], c[l], coxia_axis[l],
                              heap[new_origin[l]], al, be, ga)} :
       \E h \in {Install(heap, ids, pts)} :
       \E gc \in {compute_ground_contact(h, ids)} :
        /\ alpha' = [alpha EXCEPT ![l] = al]
        /\ beta' = [beta EXCEPT ![l] = be]
        /\ gamma' = [gamma EXCEPT ![l] = ga]
        /\ all_points' = [all_points EXCEPT ![l] = ids]
        /\ ground_contact_point' = [ground_contact_point EXCEPT ![l] = gc]
        /\ heap' = Collect(h, all_points', ground_contact_point', new_origin)
        /\ lastOp' = [op |-> "change_pose", leg |-> l]
        /\ calls' = calls + 1
        /\ UNCHANGED <<a, b, c, coxia_axis, new_origin, name, id, ikResult>>

\* Linkage.change_pose(alpha, beta, gamma)
change_pose(l, al, be, ga) ==
    /\ calls < MaxCalls
    /\ \E ids \in {FreshIds} :
       \E pts \in {BodyPoints(name[l], a[l], b[l], c[l], coxia_axis[l],
                              heap[new_origin[l]], al, be, ga)} :
       \E h \in {Install(heap, ids, pts)} :
       \E gc \in {compute_ground_contact(h, ids)} :
        /\ alpha' = [alpha EXCEPT ![l] = al]
        /\ beta' = [beta EXCEPT ![l] = be]
        /\ gamma' = [gamma EXCEPT ![l] = ga]
        /\ all_points' = [all_points EXCEPT ![l] = ids]
        /\ ground_contact_point' = [ground_contact_point EXCEPT ![l] = gc]
        /\ heap' = Collect(h, all_points', ground_contact_point', new_origin)
        /\ lastOp' = [op |-> "change_pose", leg |-> l]
        /\ calls' = calls + 1
        /\ UNCHANGED <<a, b, c, coxia_axis, new_origin, name, id, ikResult>>

\* __setattr__ with the key looked up one slot off
setattr_p_next_slot(l, i, v) ==
    /\ calls < MaxCalls
    /\ all_points' = [all_points EXCEPT ![l][attr_map((i + 1) % 4)] = v]
    /\ heap' = Collect(heap, all_points', ground_contact_point, new_origin)
    /\ lastOp' = [op |-> "setattr", leg |-> l]
    /\ calls' = calls + 1
    /\ UNCHANGED <<linkageFields, ground_contact_point, ikResult>>

\* __setattr__ with key p0..p3: all_points[attr_map[key]] = value
setattr_p(l, i, v) ==
    /\ calls < MaxCalls
    /\ all_points' = [all_points EXCEPT ![l][attr_map(i)] = v]
    /\ heap' = Collect(heap, all_points', ground_contact_point, new_origin)
    /\ lastOp' = [op |-> "setattr", leg |-> l]
    /\ calls' = calls + 1
    /\ UNCHANGED <<linkageFields, ground_contact_point, ikResult>>

\* update_hexapod_points(hexapod, leg, points): the leg's four points are set
\* to the four given, through the named accessors
update_hexapod_points(l, points) ==
    /\ calls < MaxCalls
    /\ all_points' = [all_points EXCEPT ![l] =
                        [i \in 1..4 |-> points[i]]]
    /\ heap' = Collect(heap, all_points', ground_contact_point, new_origin)
    /\ lastOp' = [op |-> "set_points", leg |-> l]
    /\ calls' = calls + 1
    /\ UNCHANGED <<linkageFields, ground_contact_point, ikResult>>

\* for point in self.all_points: point.update_point_wrt(frame, height)
\* (an object held in two slots is re-expressed twice)
RECURSIVE UpdateEach(_, _, _, _, _)
UpdateEach(h, pts, i, frame, height) ==
    IF i > 4 THEN h
    ELSE UpdateEach([h EXCEPT ![pts[i]] = update_point_wrt(h[pts[i]], frame, height)],
                    pts, i + 1, frame, height)

\* update_leg_wrt that also takes the leg's azimuth to be absorbed by the frame
update_leg_wrt_reset_alpha(l, frame, height) ==
    /\ calls < MaxCalls
    /\ heap' = UpdateEach(heap, all_points[l], 1, frame, height)
    /\ alpha' = [alpha EXCEPT ![l] = 0]
    /\ lastOp' = [op |-> "update_leg_wrt", leg |-> l]
    /\ calls' = calls + 1
    /\ UNCHANGED <<a, b, c, beta, gamma, coxia_axis, new_origin, name, id,
                   all_points, ground_contact_point, ikResult>>

\* Linkage.update_leg_wrt(frame, height)
update_leg_wrt(l, frame, height) ==
    /\ calls < MaxCalls
    /\ heap' = UpdateEach(heap, all_points[l], 1, frame, height)
    /\ lastOp' = [op |-> "update_leg_wrt", leg |-> l]
    /\ calls' = calls + 1
    /\ UNCHANGED <<linkageFields, all_points, ground_contact_point, ikResult>>

\* ------------------------------------------------------------------------
\* The inverse kinematics solver, for one leg and a target foot tip given in
\* body coordinates, on the quarter-turn lattice.
\* ------------------------------------------------------------------------

\* step 1: the target in the leg's mount frame (the mount rotation undone, the
\* mount offset removed; the mount transform leaves z alone)
ik_local(l, t) ==
    LET dx == t[1] - heap[new_origin[l]].x
        dy == t[2] - heap[new_origin[l]].y
    IN  << CosD(coxia_axis[l]) * dx + SinD(coxia_axis[l]) * dy,
           CosD(coxia_axis[l]) * dy - SinD(coxia_axis[l]) * dx,
           t[3] >>

\* step 2: the azimuth of the horizontal projection of the local target
ik_alpha(loc) ==
    IF loc[2] = 0 /\ loc[1] >= 0 THEN 0
    ELSE IF loc[1] = 0 /\ loc[2] > 0 THEN 90
    ELSE IF loc[2] = 0 THEN 180
    ELSE -90

Abs(n) == IF n < 0 THEN -n ELSE n

\* step 3: the horizontal distance from the coxia joint to the target (for a
\* target whose projection lies on a local axis) and the target's height
ik_reach(l, loc) == Abs(loc[1]) + Abs(loc[2]) - a[l]

ik_height(loc) == loc[3]

\* the reach test with the lower bound |b - c| left out
ik_unreachable_far_only(l, loc) ==
    ik_reach(l, loc) * ik_reach(l, loc) + ik_height(loc) * ik_height(loc)
        > (b[l] + c[l]) * (b[l] + c[l])

\* step 4: the target is farther from the femur joint than b + c, or nearer
\* than |b - c|
ik_unreachable(l, loc) ==
    LET d2 == ik_reach(l, loc) * ik_reach(l, loc) + ik_height(loc) * ik_height(loc)
    IN  \/ d2 > (b[l] + c[l]) * (b[l] + c[l])
        \/ d2 < (b[l] - c[l]) * (b[l] - c[l])

QuarterTurns == {-90, 0, 90, 180}

\* the (beta, gamma) that close the triangle of b and c on the target
ik_solutions(l, loc) ==
    {s \in QuarterTurns \X QuarterTurns :
        /\ b[l] * CosD(s[1]) + c[l] * SinD(s[1] + s[2]) = ik_reach(l, loc)
        /\ b[l] * SinD(s[1]) - c[l] * CosD(s[1] + s[2]) = ik_height(loc)}

\* step 5: of the two branches, the one with the knee up (the greater beta);
\* where the triangle does not close, the arccosine has no value
NaN == [nan |-> TRUE]

ik_branch(l, loc) ==
    IF ik_solutions(l, loc) = {} THEN <<NaN, NaN>>
    ELSE CHOOSE s \in ik_solutions(l, loc) : \A r \in ik_solutions(l, loc) : r[1] <= s[1]

\* the targets the quarter-turn lattice can answer: on a local axis, and either
\* out of the leg's reach or met by quarter-turn angles
ik_on_lattice(l, loc) ==
    LET d2 == ik_reach(l, loc) * ik_reach(l, loc) + ik_height(loc) * ik_height(loc)
    IN  /\ loc[1] = 0 \/ loc[2] = 0
        /\ \/ d2 > (b[l] + c[l]) * (b[l] + c[l])
           \/ d2 < (b[l] - c[l]) * (b[l] - c[l])
           \/ ik_solutions(l, loc) # {}

\* inverse_kinematics_update for the target of leg l: a failure reported to
\* the caller, or the leg's (alpha, beta, gamma)
inverse_kinematics_update(l, t) ==
    LET loc == ik_local(l, t)
    IN  /\ ikResult = Null
        /\ ik_on_lattice(l, loc)
        /\ ikResult' =
              IF ik_unreachable(l, loc)
              THEN [leg |-> l, target |-> t, status |-> "UnreachableTarget", poses |-> <<>>]
              ELSE [leg |-> l, target |-> t, status |-> "ok",
                    poses |-> << <<ik_alpha(loc), ik_branch(l, loc)[1],
                                   ik_branch(l, loc)[2]>> >>]
        /\ lastOp' = [op |-> "inverse_kinematics_update", leg |-> l]
        /\ UNCHANGED <<linkageFields, all_points, ground_contact_point, heap, calls>>

\* ------------------------------------------------------------------------
\* The inputs of the calls.
\* ------------------------------------------------------------------------

Angles == {90 * k : k \in -MaxQuarter..MaxQuarter}

Lengths == 1..MaxLen

\* the segment lengths of the legs of the two-leg scenario
BaseDims == <<1, 1, 2>>

\* the poses the two-leg scenario moves its legs to
ScenarioPoses == {<<0, 0, 0>>, <<90, 90, 0>>, <<0, -90, 90>>}

\* the points the two-leg scenario injects
InjectValues == {2, 4}

InjectLists == {<<4, 1, 2, 4>>}

\* the frames the body is re-expressed in: a tilt about Y, a turn about Z
ScenarioFrames == {frame_yrotate_xtranslate(90, 0), frame_zrotate_xytranslate(90, 1, 0)}

ScenarioHeights == {1}

Next ==
    \/ /\ Len(all_points) < Len(LegNames)
       /\ \E o \in Origins :
            Construct(BaseDims[1], BaseDims[2], BaseDims[3], 0, 0, 0, 0, o,
                      LegNames[Len(all_points) + 1])
    \/ \E l \in Legs, pose \in ScenarioPoses : change_pose(l, pose[1], pose[2], pose[3])
    \/ \E l \in Legs, i \in 0..3, v \in InjectValues : setattr_p(l, i, v)
    \/ \E l \in Legs, points \in InjectLists : update_hexapod_points(l, points)
    \/ \E l \in Legs, frame \in ScenarioFrames, height \in ScenarioHeights :
            update_leg_wrt(l, frame, height)

Spec == Init /\ [][Next]_vars

\* One leg, every length, mount azimuth, mount point and pose within the bounds:
\* the forward kinematics on its own.
NextFK ==
    \/ /\ Len(all_points) = 0
       /\ \E la, lb, lc \in Lengths, axis \in Angles, o \in Origins :
            Construct(la, lb, lc, 0, 0, 0, axis, o, LegNames[1])
    \/ /\ calls = 0
       /\ \E l \in Legs, al, be, ga \in Angles : change_pose(l, al, be, ga)

SpecFK == Init /\ [][NextFK]_vars

\* One leg of every length, mount azimuth and mount point within the bounds,
\* and the solver asked for a target on one of the body's axes through the mount.
Reach == 3 * MaxLen + 1

Targets(o) ==
    {<<heap[o].x + d, heap[o].y, z>> : d \in -Reach..Reach, z \in -Reach..Reach}
    \cup {<<heap[o].x, heap[o].y + d, z>> : d \in -Reach..Reach, z \in -Reach..Reach}

NextIK ==
    \/ /\ Len(all_points) = 0
       /\ \E la, lb, lc \in Lengths, axis \in Angles, o \in Origins :
            Construct(la, lb, lc, 0, 0, 0, axis, o, LegNames[1])
    \/ /\ ikResult = Null
       /\ \E l \in Legs : \E t \in Targets(new_origin[l]) : inverse_kinematics_update(l, t)

SpecIK == Init /\ [][NextIK]_vars

\* ------------------------------------------------------------------------
\* Properties.
\* ------------------------------------------------------------------------

XYZ(p) == <<p.x, p.y, p.z>>

Slots(l) == {all_points[l][i] : i \in 1..4}

\* the least z among the points at the ids pts
MinZ(h, pts) == CHOOSE m \in {h[pts[i]].z : i \in 1..4} : \A i \in 1..4 : m <= h[pts[i]].z

\* the ground contact of leg l is one of its four points and is a lowest one
GroundContactOk(l) ==
    /\ ground_contact_point[l] \in Slots(l)
    /\ heap[ground_contact_point[l]].z = MinZ(heap, all_points[l])

PoseOps == {"construct", "change_pose"}

\* C1 as stated: in every reachable state, ground_contact_point is one of the
\* four elements of all_points and its z is the minimum z over p0..p3.
C1_GroundContactAlways == \A l \in Legs : GroundContactOk(l)

\* C1 amended: in every state in which the last call on the model was the
\* construction or a change_pose of a leg, that leg's ground_contact_point is
\* one of the four elements of its all_points and its z is the minimum.
C1_GroundContactAfterPose ==
    \A l \in Legs : (lastOp.op \in PoseOps /\ lastOp.leg = l) => GroundContactOk(l)

\* a change_pose has left a leg whose lowest point is not the tip: the coxia
\* point p1 is the ground contact
C1_Witness ==
    \E l \in Legs :
        /\ lastOp = [op |-> "change_pose", leg |-> l]
        /\ ground_contact_point[l] = all_points[l][2]
        /\ heap[all_points[l][4]].z > heap[all_points[l][2]].z

\* C8: compute_ground_contact returns, among the points with the least z, the
\* one with the highest index (the one nearest the tip), in every state, also
\* with injected and re-framed points; and that is what a change_pose stores.
C8_TieBreakTowardTip ==
    \A l \in Legs :
        LET g == compute_ground_contact(heap, all_points[l])
            m == MinZ(heap, all_points[l])
        IN  /\ \E i \in 1..4 :
                  /\ g = all_points[l][i]
                  /\ heap[all_points[l][i]].z = m
                  /\ \A j \in 1..4 : heap[all_points[l][j]].z = m => j <= i
            /\ (lastOp.op \in PoseOps /\ lastOp.leg = l) => ground_contact_point[l] = g

\* after a change_pose, p0 and p1 tie for the least z, below the tip, and the
\* ground contact is p1
C8_Witness ==
    \E l \in Legs :
        /\ lastOp = [op |-> "change_pose", leg |-> l]
        /\ heap[all_points[l][1]].z = heap[all_points[l][2]].z
        /\ heap[all_points[l][2]].z < heap[all_points[l][3]].z
        /\ heap[all_points[l][2]].z < heap[all_points[l][4]].z
        /\ ground_contact_point[l] = all_points[l][2]
        /\ ground_contact_point[l] # all_points[l][1]

\* the values of the four points of leg l
Values(l) == [i \in 1..4 |-> heap[all_points[l][i]]]

\* C2: an assignment of v to p_i makes p_i (by name) and all_points[i] (by
\* index) the very object v, with v's value as it was, and leaves the other
\* three points the objects and values they were; a list of four points
\* injected into a leg is read back point for point.
C2_InjectionConsistency ==
    [][ /\ \A l \in Legs, i \in 0..3, v \in CallerObjects :
             (lastOp' = [op |-> "setattr", leg |-> l] /\ setattr_p(l, i, v)) =>
                /\ getattr_p(l, i)' = v
                /\ all_points'[l][i + 1] = v
                /\ heap'[v] = heap[v]
                /\ \A j \in 0..3 : j # i =>
                      /\ getattr_p(l, j)' = getattr_p(l, j)
                      /\ heap'[getattr_p(l, j)'] = heap[getattr_p(l, j)]
        /\ \A l \in Legs, points \in InjectLists :
             ( /\ lastOp' = [op |-> "set_points", leg |-> l]
               /\ update_hexapod_points(l, points) ) =>
                \A i \in 0..3 :
                   /\ getattr_p(l, i)' = points[i + 1]
                   /\ all_points'[l][i + 1] = points[i + 1]
                   /\ heap'[points[i + 1]] = heap[points[i + 1]]
      ]_vars

\* the last call assigned the caller's Point(1, 2, 3, "a") to p0 of a leg whose
\* other three points are still the ones its pose computed
C2_Witness ==
    \E l \in Legs :
        /\ lastOp = [op |-> "setattr", leg |-> l]
        /\ getattr_p(l, 0) = 4
        /\ heap[getattr_p(l, 0)] = Point(1, 2, 3, "a")
        /\ \A j \in 1..3 : getattr_p(l, j) \notin CallerObjects

\* C4: update_leg_wrt and every assignment to p0..p3 (one point or a list)
\* leave the fields alpha, beta, gamma, a, b, c, coxia_axis and new_origin of
\* every leg as they were; a step that changes an angle of a built leg is a
\* change_pose.
C4_AnglesOnlyByChangePose ==
    [][ /\ ( /\ lastOp'.op \notin PoseOps
             /\ \/ \E l \in Legs, frame \in ScenarioFrames, height \in ScenarioHeights :
                      update_leg_wrt(l, frame, height)
                \/ \E l \in Legs, i \in 0..3, v \in CallerObjects : setattr_p(l, i, v)
                \/ \E l \in Legs, points \in InjectLists :
                      update_hexapod_points(l, points) )
           => UNCHANGED <<alpha, beta, gamma, a, b, c, coxia_axis, new_origin>>
        /\ \A l \in Legs :
             <<alpha[l], beta[l], gamma[l]>> # <<alpha'[l], beta'[l], gamma'[l]>>
                => lastOp'= [op |-> "change_pose", leg |-> l]
      ]_vars

\* a leg posed at (90, 90, 0) has been re-framed and then had a point injected,
\* and still holds those angles
C4_Witness ==
    \E l \in Legs :
        /\ lastOp.op \in {"update_leg_wrt", "setattr"}
        /\ lastOp.leg = l
        /\ <<alpha[l], beta[l], gamma[l]>> = <<90, 90, 0>>
        /\ heap[all_points[l][1]] # Point(heap[new_origin[l]].x, heap[new_origin[l]].y,
                                          heap[new_origin[l]].z, heap[all_points[l][1]].name)

\* the index in all_points of the ground contact of leg l (0 when it is none
\* of the four)
GroundIndex(l) ==
    IF ground_contact_point[l] \in Slots(l)
    THEN CHOOSE i \in 1..4 : all_points[l][i] = ground_contact_point[l]
    ELSE 0

\* C3: change_pose, from any state of the leg (fresh, after an injection, after
\* update_leg_wrt), stores four points whose values are those the forward
\* kinematics gives for the angles passed and the leg's a, b, c, coxia_axis and
\* new_origin, on objects none of which was referred to before the call; the
\* ground contact is recomputed among them; and called again with the angles
\* the leg already has, right after a change_pose or the construction, it
\* leaves the four values and the ground contact's index and value as they were.
C3_ChangePoseFullRecompute ==
    [][ \A l \in Legs, pose \in ScenarioPoses :
           ( /\ lastOp' = [op |-> "change_pose", leg |-> l]
             /\ pose = <<alpha'[l], beta'[l], gamma'[l]>>
             /\ change_pose(l, pose[1], pose[2], pose[3]) ) =>
              /\ Values(l)' = BodyPoints(name[l], a[l], b[l], c[l], coxia_axis[l],
                                         heap[new_origin[l]], pose[1], pose[2], pose[3])
              /\ Slots(l)' \cap Live = {}
              /\ Cardinality(Slots(l)') = 4
              /\ GroundContactOk(l)'
              /\ heap'[new_origin[l]] = heap[new_origin[l]]
              /\ ( /\ lastOp.op \in PoseOps
                   /\ lastOp.leg = l
                   /\ pose = <<alpha[l], beta[l], gamma[l]>> )
                 => /\ Values(l)' = Values(l)
                    /\ GroundIndex(l)' = GroundIndex(l)
                    /\ heap'[ground_contact_point'[l]] = heap[ground_contact_point[l]]
      ]_vars

\* a change_pose to a non-neutral pose has returned as the second call made on
\* the legs, so from a state an earlier call (an injection, a re-framing or a
\* change_pose) had left
C3_Witness ==
    \E l \in Legs :
        /\ lastOp = [op |-> "change_pose", leg |-> l]
        /\ calls = 2
        /\ <<alpha[l], beta[l], gamma[l]>> = <<0, -90, 90>>
        /\ Values(l) = BodyPoints(name[l], a[l], b[l], c[l], coxia_axis[l],
                                  heap[new_origin[l]], 0, -90, 90)
        /\ XYZ(heap[all_points[l][4]]) # XYZ(heap[all_points[l][3]])

\* the objects other than leg l's own four points that something refers to
Others(l) ==
    CallerObjects
    \cup {new_origin[k] : k \in Legs}
    \cup UNION {Slots(k) : k \in Legs \ {l}}
    \cup {ground_contact_point[k] : k \in Legs \ {l}}

\* C10 as stated: whatever calls came before, update_leg_wrt on a leg changes
\* the value of none of: a caller's object, a new_origin, a point or ground
\* contact of another leg.
C10_NoSharedPoints ==
    [][ \A l \in Legs, frame \in ScenarioFrames, height \in ScenarioHeights :
           ( /\ lastOp' = [op |-> "update_leg_wrt", leg |-> l]
             /\ update_leg_wrt(l, frame, height) ) =>
              \A o \in Others(l) : heap'[o] = heap[o]
      ]_vars

\* C10 amended: update_leg_wrt on a leg changes the value of no object outside
\* that leg's all_points; and the four points a construction or a change_pose
\* stores are four distinct objects that no caller, no new_origin and no other
\* leg refers to (also when the legs were built on the same new_origin object).
C10_OnlyOwnPointsMutated ==
    [][ /\ \A l \in Legs, frame \in ScenarioFrames, height \in ScenarioHeights :
             ( /\ lastOp' = [op |-> "update_leg_wrt", leg |-> l]
               /\ update_leg_wrt(l, frame, height) ) =>
                \A o \in Pool \ Slots(l) : heap'[o] = heap[o]
        /\ \A l \in Legs' :
             (lastOp'.op \in PoseOps /\ lastOp'.leg = l) =>
                /\ Slots(l)' \cap Others(l)' = {}
                /\ Cardinality(Slots(l)') = 4
      ]_vars

\* two legs built on the same new_origin object; the re-framing of one has
\* moved its four points off their pose and left the shared origin, and the
\* other leg's points, where they were
C10_Witness ==
    /\ Len(all_points) = 2
    /\ new_origin[1] = new_origin[2]
    /\ lastOp = [op |-> "update_leg_wrt", leg |-> 1]
    /\ calls = 1
    /\ heap[new_origin[1]] = InitialHeapValue(new_origin[1])
    /\ XYZ(heap[all_points[1][1]]) # XYZ(heap[new_origin[1]])
    /\ XYZ(heap[all_points[2][1]]) = XYZ(heap[new_origin[2]])

\* the square of the distance between the points at ids p and q
Dist2(p, q) ==
    (heap[p].x - heap[q].x) * (heap[p].x - heap[q].x)
    + (heap[p].y - heap[q].y) * (heap[p].y - heap[q].y)
    + (heap[p].z - heap[q].z) * (heap[p].z - heap[q].z)

\* C5: a leg whose angles are all 0, whose coxia_axis is 0 and whose mount
\* origin is (0, 0, 0) has p0 = (0,0,0), p1 = (a,0,0), p2 = (a+b,0,0) and
\* p3 = (a+b,0,-c), whatever a, b, c; so has every leg just constructed without
\* angle arguments on that axis and origin.
C5_NeutralPose ==
    \A l \in Legs :
        ( /\ <<alpha[l], beta[l], gamma[l]>> = <<0, 0, 0>>
          /\ coxia_axis[l] = 0
          /\ XYZ(heap[new_origin[l]]) = <<0, 0, 0>> )
        => /\ XYZ(heap[getattr_p(l, 0)]) = <<0, 0, 0>>
           /\ XYZ(heap[getattr_p(l, 1)]) = <<a[l], 0, 0>>
           /\ XYZ(heap[getattr_p(l, 2)]) = <<a[l] + b[l], 0, 0>>
           /\ XYZ(heap[getattr_p(l, 3)]) = <<a[l] + b[l], 0, -c[l]>>

\* a leg with a = 2, b = 1, c = 2 has come back to the neutral pose by a
\* change_pose(0, 0, 0) and stands at (0,0,0), (2,0,0), (3,0,0), (3,0,-2)
C5_Witness ==
    \E l \in Legs :
        /\ lastOp = [op |-> "change_pose", leg |-> l]
        /\ <<a[l], b[l], c[l]>> = <<2, 1, 2>>
        /\ <<alpha[l], beta[l], gamma[l]>> = <<0, 0, 0>>
        /\ coxia_axis[l] = 0
        /\ new_origin[l] = DefaultOrigin
        /\ XYZ(heap[getattr_p(l, 3)]) = <<3, 0, -2>>

\* C9 as stated: after change_pose, p0..p3 are the images of the leg-local
\* points (the local origin and the three chained link transforms of it) under
\* the one mount transform built from coxia_axis + alpha and the x and y of
\* the mount origin, whatever the mount origin (x, y, z); so |p0p1| = a,
\* |p1p2| = b and |p2p3| = c.
C9_MountTransformOnAllPoints ==
    \A l \in Legs :
        LET loc == LocalPoints(beta[l], gamma[l], a[l], b[l], c[l])
            fr  == new_frame(coxia_axis[l], alpha[l], heap[new_origin[l]])
        IN  /\ \A i \in 1..4 : XYZ(heap[all_points[l][i]]) = Apply(fr, loc[i])
            /\ Dist2(all_points[l][1], all_points[l][2]) = a[l] * a[l]
            /\ Dist2(all_points[l][2], all_points[l][3]) = b[l] * b[l]
            /\ Dist2(all_points[l][3], all_points[l][4]) = c[l] * c[l]

\* the square of the distance from the femur joint of the leg of the request
\* to its target, measured in body coordinates: the joint lies a from the mount
\* point, horizontally, towards the target
RequestD2 ==
    LET l   == ikResult.leg
        dx  == ikResult.target[1] - heap[new_origin[l]].x
        dy  == ikResult.target[2] - heap[new_origin[l]].y
        rho == Abs(dx) + Abs(dy)
    IN  (rho - a[l]) * (rho - a[l]) + ikResult.target[3] * ikResult.target[3]

\* C7: a request whose target lies farther than b + c from the femur joint, or
\* nearer than |b - c|, is answered with UnreachableTarget and no angle triple.
C7_UnreachableReported ==
    ikResult # Null =>
        LET l == ikResult.leg
        IN  ( \/ RequestD2 > (b[l] + c[l]) * (b[l] + c[l])
              \/ RequestD2 < (b[l] - c[l]) * (b[l] - c[l]) )
            => (ikResult.status = "UnreachableTarget" /\ ikResult.poses = <<>>)

\* a request for a target nearer the femur joint than |b - c| was refused
C7_Witness ==
    /\ ikResult # Null
    /\ RequestD2 < (b[ikResult.leg] - c[ikResult.leg]) * (b[ikResult.leg] - c[ikResult.leg])
    /\ ikResult.status = "UnreachableTarget"

\* the triples the solver returns put the foot tip on the target
IkRoundTrip ==
    (ikResult # Null /\ ikResult.status = "ok") =>
        LET l == ikResult.leg
            q == ikResult.poses[1]
        IN  XYZ(BodyPoints(name[l], a[l], b[l], c[l], coxia_axis[l], heap[new_origin[l]],
                           q[1], q[2], q[3])[4]) = ikResult.target

====
